---- MODULE Spec2Model ----
(***************************************************************************)
(* Model of validasi.py: read a key file, issue one HTTP check per key,    *)
(* classify the outcome, print a sorted report, write the debug log and    *)
(* the active-keys file (aktif.txt).                                       *)
(*                                                                         *)
(* Text (the key file, a key, the content of aktif.txt) is a sequence of   *)
(* one-character strings.  Notes are TLA+ strings.  A status is <<>> for   *)
(* Python's None and <<n>> for the integer n.                              *)
(***************************************************************************)
EXTENDS Integers, Sequences, FiniteSets, TLC

VARIABLES
  pc,             \* position of main(): start, loop, log, aktif, done, exit,
                  \* crashed; mask and masked for the stand-alone mask_key call
  fileState,      \* the key file: "missing", "unreadable" or "ok"
  fileText,       \* the characters of the key file
  auth_mode,      \* args.auth_mode
  use_requests,   \* requests is not None
  endpointScheme, \* whether args.endpoint has a URL scheme ("https://...")
  delay,          \* args.delay (only its sign matters to time.sleep)
  keys,           \* the list read_keys returned
  i,              \* number of completed loop iterations
  results,        \* main's results list
  debug_lines,    \* main's debug_lines list
  results_sorted, \* main's results_sorted list
  requests_log,   \* the calls made to the HTTP client, in order
  stdout,         \* lines printed to standard output
  stderr,         \* lines printed to standard error
  debugLog,       \* the debug log file
  aktif,          \* the file aktif.txt
  exitCode,       \* process exit status, <<>> while running
  k,              \* argument of the stand-alone mask_key call
  masked          \* its result, <<>> before the call

vars == <<pc, fileState, fileText, auth_mode, use_requests, endpointScheme, delay,
          keys, i, results, debug_lines, results_sorted, requests_log, stdout,
          stderr, debugLog, aktif, exitCode, k, masked>>

\* ------------------------------------------------------------------ bounds
\* most keys in the key file of a full run
MaxKeys == 3
\* most keys in the key file of a run checked for termination
MaxFairKeys == 2
\* longest key file text given to read_keys alone
MaxTextLen == 5
\* longest key given to mask_key alone
MaxKeyLen == 12

\* ------------------------------------------------------ program constants
\* mask_key: keys up to this length show 2 characters at each end
ShortKeyLen == 10
ShortShown == 2
LongShown == 4

None == <<>>

Min(a, b) == IF a < b THEN a ELSE b
Max(a, b) == IF a > b THEN a ELSE b

\* ------------------------------------------------------------- str helpers
\* characters str.strip() removes (the line breaks are gone after splitlines)
Whitespace == {" ", "\t"}

\* line boundaries of str.splitlines() that the model's alphabet can hold
LineBreaks == {"\n", "\r"}

RECURSIVE lstrip(_)
lstrip(s) ==
  IF s # <<>> /\ Head(s) \in Whitespace THEN lstrip(Tail(s)) ELSE s

RECURSIVE rstrip(_)
rstrip(s) ==
  IF s # <<>> /\ s[Len(s)] \in Whitespace
    THEN rstrip(SubSeq(s, 1, Len(s) - 1))
    ELSE s

strip(s) == rstrip(lstrip(s))

startswith(s, c) == s # <<>> /\ Head(s) = c

\* str.splitlines(): cut at "\n", "\r" and "\r\n" (one break); a text that
\* ends with a break has no empty last line.  cur is the line being read.
RECURSIVE splitfrom(_, _)
splitfrom(text, cur) ==
  IF text = <<>>
    THEN IF cur = <<>> THEN <<>> ELSE <<cur>>
    ELSE IF Head(text) = "\r" /\ Len(text) > 1 /\ text[2] = "\n"
      THEN <<cur>> \o splitfrom(Tail(Tail(text)), <<>>)
      ELSE IF Head(text) \in LineBreaks
        THEN <<cur>> \o splitfrom(Tail(text), <<>>)
        ELSE splitfrom(Tail(text), Append(cur, Head(text)))

splitlines(text) == splitfrom(text, <<>>)

\* keep_keys testing and keeping the line as read, without strip()
RECURSIVE keep_keys_unstripped(_)
keep_keys_unstripped(lines) ==
  IF lines = <<>> THEN <<>>
  ELSE LET s == Head(lines)
       IN  IF s = <<>> \/ startswith(s, "#")
             THEN keep_keys_unstripped(Tail(lines))
             ELSE <<s>> \o keep_keys_unstripped(Tail(lines))

\* the loop of read_keys over the lines
RECURSIVE keep_keys(_)
keep_keys(lines) ==
  IF lines = <<>> THEN <<>>
  ELSE LET s == strip(Head(lines))
       IN  IF s = <<>> \/ startswith(s, "#")
             THEN keep_keys(Tail(lines))
             ELSE <<s>> \o keep_keys(Tail(lines))

read_keys(text) == keep_keys(splitlines(text))

\* Python slices k[:n] and k[-n:]
prefix(s, n) == SubSeq(s, 1, Min(n, Len(s)))
suffix(s, n) == SubSeq(s, Max(1, Len(s) - n + 1), Len(s))

\* mask_key with the length test off by one
mask_key_below_10(key) ==
  IF Len(key) < ShortKeyLen
    THEN prefix(key, ShortShown) \o <<".", ".", ".">> \o suffix(key, ShortShown)
    ELSE prefix(key, LongShown) \o <<".", ".", ".">> \o suffix(key, LongShown)

mask_key(key) ==
  IF Len(key) <= ShortKeyLen
    THEN prefix(key, ShortShown) \o <<".", ".", ".">> \o suffix(key, ShortShown)
    ELSE prefix(key, LongShown) \o <<".", ".", ".">> \o suffix(key, LongShown)

\* ---------------------------------------------------------- the HTTP check
HttpCodes == {200, 401, 403, 500}

\* what the network does with one request: a transport failure or a response
NetOutcomes ==
  {[kind |-> "fail", status |-> None, body |-> "timed out"]}
    \cup {[kind |-> "http", status |-> <<c>>, body |-> "{}"] : c \in HttpCodes}

\* check_key_requests without its outer try/except: a transport failure
\* leaves the function as an exception
check_key_requests_uncaught(scheme, net) ==
  IF ~scheme \/ net.kind = "fail"
    THEN [raised |-> TRUE, called |-> TRUE, status |-> None, body |-> net.body]
    ELSE [raised |-> FALSE, called |-> TRUE, status |-> net.status, body |-> net.body]

\* requests.get raises inside the try for a transport failure and for an
\* endpoint without scheme (MissingSchema); both end in `return None, str(e)`
check_key_requests(scheme, net) ==
  IF ~scheme
    THEN [raised |-> FALSE, called |-> TRUE, status |-> None, body |-> "Invalid URL"]
    ELSE [raised |-> FALSE, called |-> TRUE, status |-> net.status, body |-> net.body]

\* request.Request(url) raises ValueError("unknown url type") for an endpoint
\* without scheme, before the try; urlopen's errors are caught inside it
check_key_urllib(scheme, net) ==
  IF ~scheme
    THEN [raised |-> TRUE, called |-> FALSE, status |-> None, body |-> "unknown url type"]
    ELSE [raised |-> FALSE, called |-> TRUE, status |-> net.status, body |-> net.body]

\* client_calls with one retry after a transport failure
client_calls_retry(ret, key) ==
  IF ~ret.called THEN <<>>
  ELSE IF ret.status = None
    THEN <<[key |-> key, auth_mode |-> auth_mode], [key |-> key, auth_mode |-> auth_mode]>>
    ELSE <<[key |-> key, auth_mode |-> auth_mode]>>

\* the calls one iteration makes to the HTTP client (requests.get or urlopen):
\* one, unless building the request raised before it
client_calls(ret, key) ==
  IF ret.called THEN <<[key |-> key, auth_mode |-> auth_mode]>> ELSE <<>>

\* classify with 403 left out of the unauthorized codes
classify_only_401(status, body) ==
  IF status = None
    THEN [ok |-> FALSE, note |-> "Error: " \o body]
    ELSE IF status[1] = 200
      THEN [ok |-> TRUE, note |-> "Active"]
      ELSE IF status[1] \in {401}
        THEN [ok |-> FALSE, note |-> "Invalid / Unauthorized"]
        ELSE [ok |-> FALSE, note |-> "HTTP " \o ToString(status[1])]

\* the if/elif chain of main() that sets ok and note
classify(status, body) ==
  IF status = None
    THEN [ok |-> FALSE, note |-> "Error: " \o body]
    ELSE IF status[1] = 200
      THEN [ok |-> TRUE, note |-> "Active"]
      ELSE IF status[1] \in {401, 403}
        THEN [ok |-> FALSE, note |-> "Invalid / Unauthorized"]
        ELSE [ok |-> FALSE, note |-> "HTTP " \o ToString(status[1])]

\* result_record numbering from 0, as enumerate(keys) without its start would
result_record_from_0(idx, key, status, body) ==
  LET c == classify(status, body)
  IN  [index |-> idx - 1, key |-> key, masked |-> mask_key(key), status |-> status,
       ok |-> c.ok, note |-> c.note]

result_record(idx, key, status, body) ==
  LET c == classify(status, body)
  IN  [index |-> idx, key |-> key, masked |-> mask_key(key), status |-> status,
       ok |-> c.ok, note |-> c.note]

\* the entry of debug_lines; the bodies of the model are shorter than the
\* 1000 characters from which body_preview is cut
debug_record(idx, key, status, body) ==
  [index |-> idx, masked |-> mask_key(key), status |-> status,
   auth_mode |-> auth_mode, body_preview |-> body]

\* ------------------------------------------------------------------ sorting
\* sort_key with the two groups the other way round
sort_key_inactive_first(r) == <<IF r.ok THEN 1 ELSE 0, r.index>>

\* the sort key of main(): (0 if r['ok'] else 1, r['index'])
sort_key(r) == <<IF r.ok THEN 0 ELSE 1, r.index>>

\* Python's order on 2-tuples
tuple_less(a, b) == a[1] < b[1] \/ (a[1] = b[1] /\ a[2] < b[2])

\* stable insertion: r goes after every element whose key is not greater
RECURSIVE insert_sorted(_, _)
insert_sorted(r, s) ==
  IF s = <<>> THEN <<r>>
  ELSE IF tuple_less(sort_key(r), sort_key(Head(s)))
    THEN <<r>> \o s
    ELSE <<Head(s)>> \o insert_sorted(r, Tail(s))

RECURSIVE sorted(_)
sorted(rs) ==
  IF rs = <<>> THEN <<>>
  ELSE insert_sorted(rs[Len(rs)], sorted(SubSeq(rs, 1, Len(rs) - 1)))

\* ------------------------------------------------------------------ output
report_row(r) ==
  <<"row", r.index, r.masked, IF r.ok THEN "ACTIVE" ELSE "INVALID",
    IF r.status = None THEN "-" ELSE ToString(r.status[1]), r.note>>

report_lines(rs) ==
  <<<<"header">>>> \o [j \in 1..Len(rs) |-> report_row(rs[j])] \o <<<<"footer">>>>

\* aktif_text writing the masked key, as the report does
RECURSIVE aktif_text_masked(_)
aktif_text_masked(rs) ==
  IF rs = <<>> THEN <<>>
  ELSE (IF Head(rs).ok THEN Head(rs).masked \o <<",", "\n">> ELSE <<>>)
         \o aktif_text_masked(Tail(rs))

\* what the loop over results_sorted writes to aktif.txt: f"{r['key']},\n"
\* for each record with ok
RECURSIVE aktif_text(_)
aktif_text(rs) ==
  IF rs = <<>> THEN <<>>
  ELSE (IF Head(rs).ok THEN Head(rs).key \o <<",", "\n">> ELSE <<>>)
         \o aktif_text(Tail(rs))

\* the records the aktif.txt loop writes a line for
active_records(rs) == SelectSeq(rs, LAMBDA r : r.ok)

\* a file the run has not opened for writing
Untouched == [state |-> "untouched", content |-> <<>>]

\* ------------------------------------------------------------ initial states
AuthModes == {"bearer", "api_key_header", "query_key"}

\* the key files of the full runs: up to MaxKeys lines, one key on each
KeyLines == {<<"a">>, <<"b">>}

RECURSIVE join_lines(_)
join_lines(ls) ==
  IF ls = <<>> THEN <<>> ELSE Head(ls) \o <<"\n">> \o join_lines(Tail(ls))

TextsUpTo(max) ==
  {join_lines(ls) : ls \in UNION {[1..n -> KeyLines] : n \in 0..max}}

MainTexts == TextsUpTo(MaxKeys)

\* the key files given to read_keys alone: every text up to MaxTextLen
ReadAlphabet == {"a", "#", " ", "\n", "\r"}
ReadTexts == UNION {[1..n -> ReadAlphabet] : n \in 0..MaxTextLen}

\* the keys given to mask_key alone
MaskAlphabet == {"a", "b"}
MaskKeys == UNION {[1..n -> MaskAlphabet] : n \in 1..MaxKeyLen}

InitRun ==
  /\ pc = "start"
  /\ keys = <<>>
  /\ i = 0
  /\ results = <<>>
  /\ debug_lines = <<>>
  /\ results_sorted = <<>>
  /\ requests_log = <<>>
  /\ stdout = <<>>
  /\ stderr = <<>>
  /\ debugLog = Untouched
  /\ aktif = Untouched
  /\ exitCode = None
  /\ k = <<>>
  /\ masked = <<>>

\* the command line: the options the run depends on
InitArgs ==
  /\ auth_mode \in AuthModes
  /\ use_requests \in BOOLEAN
  /\ endpointScheme \in BOOLEAN
  /\ delay \in {-1, 0}

Init ==
  /\ InitRun
  /\ \/ fileState \in {"missing", "unreadable"} /\ fileText = <<>>
     \/ fileState = "ok" /\ fileText \in MainTexts
  /\ InitArgs

\* read_keys without its exists() test, a missing file read as an empty one
read_keys_raises_unchecked(state) == state = "unreadable"

\* read_keys raises (FileNotFoundError of its own, or read_text's error) and
\* main() catches it, unless the file is there and readable
read_keys_raises(state) == state # "ok"

\* after_log without the except clause: a failed write ends the run
after_log_fatal(outcome) == IF outcome = "written" THEN "aktif" ELSE "crashed"

\* where main() goes on after the debug log's try/except: both the end of the
\* try body and the except clause fall through to the aktif.txt block
after_log(outcome) == "aktif"

\* ------------------------------------------------------------------ actions
\* main() lines 114-122: read_keys, exit 2 on any exception, exit 0 on no keys
Load ==
  /\ pc = "start"
  /\ IF read_keys_raises(fileState)
       THEN /\ stderr' = Append(stderr, <<"Error", fileState>>)
            /\ exitCode' = <<2>>
            /\ pc' = "exit"
            /\ UNCHANGED <<keys, stdout>>
       ELSE /\ keys' = read_keys(fileText)
            /\ IF keys' = <<>>
                 THEN /\ stdout' = Append(stdout, <<"No keys found">>)
                      /\ exitCode' = <<0>>
                      /\ pc' = "exit"
                 ELSE /\ pc' = "loop"
                      /\ UNCHANGED <<stdout, exitCode>>
            /\ UNCHANGED stderr
  /\ UNCHANGED <<fileState, fileText, auth_mode, use_requests, endpointScheme, delay,
                 i, results, debug_lines, results_sorted, requests_log,
                 debugLog, aktif, k, masked>>

\* one iteration of the loop of main(), lines 128-161
Iterate ==
  /\ pc = "loop"
  /\ i < Len(keys)
  /\ \E net \in NetOutcomes :
       LET key == keys[i + 1]
           ret == IF use_requests
                    THEN check_key_requests(endpointScheme, net)
                    ELSE check_key_urllib(endpointScheme, net)
           out == Append(stdout, <<"Checking", i + 1, Len(keys), mask_key(key)>>)
       IN  /\ stdout' = out
           /\ requests_log' = requests_log \o client_calls(ret, key)
           /\ IF ret.raised
                THEN /\ pc' = "crashed"
                     /\ exitCode' = <<1>>
                     /\ stderr' = Append(stderr, <<"Traceback", ret.body>>)
                     /\ UNCHANGED <<i, results, debug_lines>>
                ELSE /\ results' = Append(results, result_record(i + 1, key, ret.status, ret.body))
                     /\ debug_lines' = Append(debug_lines, debug_record(i + 1, key, ret.status, ret.body))
                     /\ IF delay < 0
                          THEN /\ pc' = "crashed"
                               /\ exitCode' = <<1>>
                               /\ stderr' = Append(stderr, <<"Traceback", "sleep length must be non-negative">>)
                               /\ UNCHANGED i
                          ELSE /\ i' = i + 1
                               /\ UNCHANGED <<pc, exitCode, stderr>>
  /\ UNCHANGED <<fileState, fileText, auth_mode, use_requests, endpointScheme, delay,
                 keys, results_sorted, debugLog, aktif, k, masked>>

\* lines 163-172: sort and print the report
Report ==
  /\ pc = "loop"
  /\ i = Len(keys)
  /\ results_sorted' = sorted(results)
  /\ stdout' = stdout \o report_lines(results_sorted')
  /\ pc' = "log"
  /\ UNCHANGED <<fileState, fileText, auth_mode, use_requests, endpointScheme, delay,
                 keys, i, results, debug_lines, requests_log, stderr, debugLog, aktif,
                 exitCode, k, masked>>

\* lines 174-186: write the debug log; any exception is printed and dropped
WriteLog ==
  /\ pc = "log"
  /\ \E outcome \in {"written", "open failed", "write failed"} :
       /\ debugLog' =
            CASE outcome = "written" -> [state |-> "written", content |-> debug_lines]
              [] outcome = "open failed" -> debugLog
              [] outcome = "write failed" -> [state |-> "partial", content |-> <<>>]
       /\ IF outcome = "written"
            THEN stdout' = Append(stdout, <<"Debug log written">>) /\ UNCHANGED stderr
            ELSE stderr' = Append(stderr, <<"Failed to write debug log">>) /\ UNCHANGED stdout
       /\ pc' = after_log(outcome)
  /\ UNCHANGED <<fileState, fileText, auth_mode, use_requests, endpointScheme, delay,
                 keys, i, results, debug_lines, results_sorted, requests_log, aktif,
                 exitCode, k, masked>>

\* lines 188-198: write aktif.txt; any exception is printed and dropped, and
\* main() returns.  A failed write leaves the lines written before it.
WriteAktif ==
  /\ pc = "aktif"
  /\ LET act == active_records(results_sorted)
     IN  \E outcome \in {"written", "open failed", "write failed"} :
           \E n \in 0..Len(act) :
             /\ outcome # "write failed" => n = Len(act)
             /\ aktif' =
                  CASE outcome = "written" ->
                         [state |-> "written", content |-> aktif_text(results_sorted)]
                    [] outcome = "open failed" -> aktif
                    [] outcome = "write failed" ->
                         [state |-> "partial", content |-> aktif_text(SubSeq(act, 1, n))]
             /\ IF outcome = "written"
                  THEN stdout' = Append(stdout, <<"Active keys written">>) /\ UNCHANGED stderr
                  ELSE stderr' = Append(stderr, <<"Failed to write aktif.txt">>) /\ UNCHANGED stdout
  /\ pc' = "done"
  /\ exitCode' = <<0>>
  /\ UNCHANGED <<fileState, fileText, auth_mode, use_requests, endpointScheme, delay,
                 keys, i, results, debug_lines, results_sorted, requests_log, debugLog,
                 k, masked>>

Next == Load \/ Iterate \/ Report \/ WriteLog \/ WriteAktif

Spec == Init /\ [][Next]_vars

\* main() is one sequential procedure: whenever it has a next step it takes it
InitFair ==
  /\ InitRun
  /\ \/ fileState \in {"missing", "unreadable"} /\ fileText = <<>>
     \/ fileState = "ok" /\ fileText \in TextsUpTo(MaxFairKeys)
  /\ InitArgs

FairSpec == InitFair /\ [][Next]_vars /\ WF_vars(Next)

\* --------------------------------------------------------- read_keys alone
InitRead ==
  /\ InitRun
  /\ \/ fileState \in {"missing", "unreadable"} /\ fileText = <<>>
     \/ fileState = "ok" /\ fileText \in ReadTexts
  /\ auth_mode = "query_key"
  /\ use_requests = TRUE
  /\ endpointScheme = TRUE
  /\ delay = 0

SpecRead == InitRead /\ [][Load]_vars

\* ---------------------------------------------------------- mask_key alone
InitMask ==
  /\ pc = "mask"
  /\ k \in MaskKeys
  /\ masked = <<>>
  /\ fileState = "ok"
  /\ fileText = <<>>
  /\ auth_mode = "query_key"
  /\ use_requests = TRUE
  /\ endpointScheme = TRUE
  /\ delay = 0
  /\ keys = <<>>
  /\ i = 0
  /\ results = <<>>
  /\ debug_lines = <<>>
  /\ results_sorted = <<>>
  /\ requests_log = <<>>
  /\ stdout = <<>>
  /\ stderr = <<>>
  /\ debugLog = Untouched
  /\ aktif = Untouched
  /\ exitCode = None

MaskCall ==
  /\ pc = "mask"
  /\ masked' = mask_key(k)
  /\ pc' = "masked"
  /\ UNCHANGED <<fileState, fileText, auth_mode, use_requests, endpointScheme, delay,
                 keys, i, results, debug_lines, results_sorted, requests_log, stdout,
                 stderr, debugLog, aktif, exitCode, k>>

SpecMask == InitMask /\ [][MaskCall]_vars

\* ===================================================================== claims
\* the positions of main() after the validation loop
PostLoop == {"log", "aktif", "done"}

\* the texts str(e) of the transport failures of the model
ErrorTexts == {"timed out", "Invalid URL"}

\* C1: every record's ok and note are the function of its status the spec
\* gives: 200 -> ok, 'Active'; 401/403 -> not ok, 'Invalid / Unauthorized';
\* another code -> not ok, 'HTTP <code>'; None -> not ok, a note that begins
\* 'Error: '; so ok holds exactly for status 200.
C1_Classification ==
  \A j \in 1..Len(results) :
    LET r == results[j]
    IN  /\ r.status = <<200>> => r.ok /\ r.note = "Active"
        /\ r.status \in {<<401>>, <<403>>} =>
             ~r.ok /\ r.note = "Invalid / Unauthorized"
        /\ r.status \notin {None, <<200>>, <<401>>, <<403>>} =>
             ~r.ok /\ r.note = "HTTP " \o ToString(r.status[1])
        /\ r.status = None =>
             ~r.ok /\ \E e \in ErrorTexts : r.note = "Error: " \o e
        /\ r.ok <=> r.status = <<200>>

C1_Witness ==
  /\ Len(results) = 3
  /\ results[1].status = <<403>>
  /\ results[2].status = None
  /\ results[3].status = <<200>>

\* C2: after any number of iterations results holds the records of the first
\* keys, in order, with index = position and key = the key at that position;
\* once the loop is over there is exactly one record per key.
C2_OneRecordPerKey ==
  /\ Len(results) <= Len(keys)
  /\ \A j \in 1..Len(results) : results[j].index = j /\ results[j].key = keys[j]
  /\ pc = "loop" => Len(results) = i
  /\ pc \in PostLoop => Len(results) = Len(keys)

C2_Witness ==
  /\ pc = "log"
  /\ Len(results) = 3
  /\ results[1].key # results[2].key
  /\ results[1].status # results[3].status

\* C3: results_sorted is a permutation of results, every ok record before
\* every other record, and the indexes strictly ascending inside each group.
C3_SortedReport ==
  pc \in PostLoop =>
    /\ Len(results_sorted) = Len(results)
    /\ \A j \in 1..Len(results) :
         \E p \in 1..Len(results_sorted) : results_sorted[p] = results[j]
    /\ \A p, q \in 1..Len(results_sorted) :
         p < q =>
           /\ results_sorted[q].ok => results_sorted[p].ok
           /\ results_sorted[p].ok = results_sorted[q].ok =>
                results_sorted[p].index < results_sorted[q].index

C3_Witness ==
  /\ pc = "log"
  /\ Len(results) = 3
  /\ ~results[1].ok /\ results[2].ok /\ ~results[3].ok
  /\ results_sorted # results

\* the positions of the records with ok, and the n-th of them in input order
ActiveIdx == {j \in 1..Len(results) : results[j].ok}
NthActive(n) == CHOOSE j \in ActiveIdx : Cardinality({m \in ActiveIdx : m <= j}) = n

\* the lines of aktif.txt the claim describes: the full key of each ok record
\* and a comma, in ascending index
ActiveLines == [n \in 1..Cardinality(ActiveIdx) |-> results[NthActive(n)].key \o <<",">>]

\* C4 (as stated): a successfully written aktif.txt holds exactly ActiveLines,
\* one per line; no key of a record with ok=false appears in it and no key
\* of a record with ok=true is missing.
C4_Original ==
  aktif.state = "written" =>
    LET lines == splitlines(aktif.content)
    IN  /\ lines = ActiveLines
        /\ aktif.content = join_lines(lines)
        /\ \A j \in 1..Len(results) :
             ~results[j].ok =>
               \A l \in 1..Len(lines) : lines[l] # results[j].key \o <<",">>
        /\ \A j \in 1..Len(results) :
             results[j].ok =>
               \E l \in 1..Len(lines) : lines[l] = results[j].key \o <<",">>

\* C4 (amended): a successfully written aktif.txt holds exactly ActiveLines,
\* one per line: one line per record with ok=true, none for a record with
\* ok=false, so a key string appears once for each ok record that carries it
\* (a key listed twice that was active once and failed once does appear).
C4_ActiveKeysFile ==
  aktif.state = "written" =>
    LET lines == splitlines(aktif.content)
    IN  /\ lines = ActiveLines
        /\ aktif.content = join_lines(lines)
        /\ Len(lines) = Cardinality(ActiveIdx)
        /\ \A j \in 1..Len(results) :
             Cardinality({l \in 1..Len(lines) : lines[l] = results[j].key \o <<",">>})
               = Cardinality({m \in ActiveIdx : results[m].key = results[j].key})

C4_Witness ==
  /\ aktif.state = "written"
  /\ Len(results) = 3
  /\ results[1].ok /\ ~results[2].ok /\ results[3].ok
  /\ results[1].key = results[2].key
  /\ results[1].key # results[3].key

\* C5: a transport failure (status None) gets its own record with ok=false,
\* never aborts the run (the only abort after a request is time.sleep
\* refusing a negative delay, whatever the status was), and every later key
\* is still requested and classified by its own status alone.
C5_FailureIsolated ==
  /\ Len(requests_log) = Len(results)
  /\ \A j \in 1..Len(results) :
       results[j].status = None =>
         /\ ~results[j].ok /\ results[j].index = j /\ results[j].key = keys[j]
         /\ pc = "crashed" => delay < 0
         /\ delay >= 0 => pc \in {"loop"} \cup PostLoop
         /\ pc = "loop" => i >= j
         /\ pc \in PostLoop => Len(results) = Len(keys)
         /\ \A m \in (j + 1)..Len(results) :
              /\ requests_log[m].key = keys[m]
              /\ results[m].key = keys[m] /\ results[m].index = m
              /\ results[m].ok <=> results[m].status = <<200>>

C5_Witness ==
  /\ pc = "done"
  /\ endpointScheme
  /\ Len(results) = 3
  /\ results[1].status = None
  /\ results[2].status = <<200>>
  /\ results[3].status = <<401>>

\* C6: with the key file missing the run ends with exit status 2 after one
\* error line on stderr, having made no request, printed nothing on stdout
\* and written neither the debug log nor aktif.txt.
C6_MissingKeyFile ==
  fileState = "missing" =>
    /\ requests_log = <<>> /\ results = <<>> /\ stdout = <<>>
    /\ debugLog = Untouched /\ aktif = Untouched
    /\ pc \in {"start", "exit"}
    /\ pc = "start" => exitCode = None /\ stderr = <<>>
    /\ pc = "exit" => exitCode = <<2>> /\ stderr = <<<<"Error", "missing">>>>

C6_Witness == fileState = "missing" /\ pc = "exit" /\ exitCode = <<2>>

\* what the run has printed so far
LogFailed == \E n \in 1..Len(stderr) : stderr[n] = <<"Failed to write debug log">>
LogAttempted == LogFailed \/ \E n \in 1..Len(stdout) : stdout[n] = <<"Debug log written">>
AktifFailed == \E n \in 1..Len(stderr) : stderr[n] = <<"Failed to write aktif.txt">>
AktifAttempted == AktifFailed \/ \E n \in 1..Len(stdout) : stdout[n] = <<"Active keys written">>
ReportStarted == \E n \in 1..Len(stdout) : stdout[n][1] \in {"header", "row", "footer"}
ReportPrinted ==
  \E a \in 1..Len(stdout) :
    /\ stdout[a] = <<"header">>
    /\ a + Len(results) + 1 <= Len(stdout)
    /\ stdout[a + Len(results) + 1] = <<"footer">>
    /\ \A j \in 1..Len(results) :
         stdout[a + j][1] = "row" /\ stdout[a + j][2] = results_sorted[j].index

C7_NotFatal ==
  /\ LogFailed =>
       /\ pc \in {"aktif", "done"}
       /\ exitCode \in {None, <<0>>}
       /\ ReportPrinted
       /\ pc = "done" => AktifAttempted
  /\ AktifFailed => pc = "done" /\ exitCode = <<0>> /\ ReportPrinted

\* C7: a failed debug log write is followed by the attempt to write
\* aktif.txt, a failed aktif.txt write by the normal end of the run; neither
\* sets an error exit status, and the report printed before stays printed.
C7_WriteFailuresNotFatal ==
  /\ []C7_NotFatal
  /\ LogFailed ~> AktifAttempted
  /\ AktifFailed ~> (pc = "done" /\ exitCode = <<0>>)

C7_Witness == pc = "done" /\ LogFailed /\ AktifFailed /\ Len(results) = 2

\* the inputs with which no statement of the loop raises outside a try:
\* time.sleep accepts the delay and the endpoint is a URL with its scheme
GoodInputs == delay >= 0 /\ endpointScheme

C8_Order ==
  /\ Len(requests_log) <= Len(keys)
  /\ \A m \in 1..Len(requests_log) : requests_log[m].key = keys[m]
  /\ Len(requests_log) = Len(results)
  /\ (ReportStarted \/ LogAttempted \/ AktifAttempted
        \/ debugLog # Untouched \/ aktif # Untouched) =>
       Len(keys) > 0 /\ Len(results) = Len(keys)
  /\ LogAttempted => ReportPrinted
  /\ AktifAttempted => LogAttempted

FileLines == splitlines(fileText)
IsBlank(line) == \A n \in 1..Len(line) : line[n] \in Whitespace

\* the n-th smallest member of a set of line numbers
NthOf(S, n) == CHOOSE j \in S : Cardinality({m \in S : m <= j}) = n

\* C9 (as stated): the keys are, in file order, exactly the lines that are
\* neither blank nor '#'-prefixed, one key per such line, the line itself.
C9_Original ==
  (fileState = "ok" /\ pc # "start") =>
    LET kept == {n \in 1..Len(FileLines) :
                   ~IsBlank(FileLines[n]) /\ ~startswith(FileLines[n], "#")}
    IN  /\ Len(keys) = Cardinality(kept)
        /\ \A j \in 1..Len(keys) : keys[j] = FileLines[NthOf(kept, j)]

\* C9 (amended): the keys are, in file order, the lines with their leading
\* and trailing whitespace removed, for exactly the lines that are then
\* neither empty nor '#'-prefixed; every other line is omitted, every kept
\* line yields one key, duplicates included.
C9_ReadKeys ==
  (fileState = "ok" /\ pc # "start") =>
    LET kept == {n \in 1..Len(FileLines) :
                   /\ ~IsBlank(FileLines[n])
                   /\ \E c \in 1..Len(FileLines[n]) :
                        /\ FileLines[n][c] # "#"
                        /\ FileLines[n][c] \notin Whitespace
                        /\ \A b \in 1..(c - 1) : FileLines[n][b] \in Whitespace}
    IN  /\ Len(keys) = Cardinality(kept)
        /\ \A j \in 1..Len(keys) :
             LET line == FileLines[NthOf(kept, j)]
             IN  \E a, b \in 1..Len(line) :
                   /\ keys[j] = SubSeq(line, a, b)
                   /\ line[a] \notin Whitespace /\ line[b] \notin Whitespace
                   /\ \A c \in 1..Len(line) : (c < a \/ c > b) => line[c] \in Whitespace

C9_Witness ==
  /\ pc = "loop"
  /\ fileText = <<" ", "a", "\n", " ", "#">>
  /\ keys = <<<<"a">>>>

\* C10: mask_key(k) is k's first 2 characters, '...', k's last 2 characters
\* for len(k) <= 10 and first 4, '...', last 4 for len(k) > 10 (fewer where
\* k is shorter); for len(k) < 4 the two shown parts overlap and together
\* show every character of k.
C10_MaskKey ==
  pc = "masked" =>
    LET n == IF Len(k) <= 10 THEN 2 ELSE 4
        p == IF Len(k) < n THEN Len(k) ELSE n
    IN  /\ Len(masked) = 2 * p + 3
        /\ \A j \in 1..p : masked[j] = k[j]
        /\ \A j \in 1..3 : masked[p + j] = "."
        /\ \A j \in 1..p : masked[p + 3 + j] = k[Len(k) - p + j]
        /\ Len(k) < 4 =>
             /\ (1..p) \cap ((Len(k) - p + 1)..Len(k)) # {}
             /\ (1..p) \cup ((Len(k) - p + 1)..Len(k)) = 1..Len(k)

C10_Witness ==
  /\ pc = "masked"
  /\ Len(k) = 11
  /\ k[4] # k[5]
  /\ Len(masked) = 11

====
